---- MODULE Spec2Model ----
(***************************************************************************)
(* The transaction execution step (transact-step.svelte): one batch of     *)
(* wrappers is driven to completion either through a wallet signer (EOA)   *)
(* or through the Safe backend, with a per-transaction timeline and a      *)
(* retry-from-failure action.                                              *)
(*                                                                         *)
(* The batch follows the contract of the payload: titles are unique within *)
(* a batch and the transactions hook yields the same batch on every call.  *)
(* wait() rejects once the transaction is mined as reverted or replaced,   *)
(* so a transaction whose wait() has settled is no longer in flight.       *)
(*                                                                         *)
(* Arrays are functions over 0..n-1, so indices read as in the source.     *)
(* Every action is one synchronous stretch of the component between two    *)
(* suspension points (await).                                              *)
(***************************************************************************)
EXTENDS Integers, Sequences, FiniteSets, TLC

\* Largest batch the transactions hook returns.
MaxTx == 3
\* Number of times the user may press "Try again" in one flow.
MaxRetries == 2

\* Largest estimate the arithmetic of the gas buffer is checked for.
MaxEstimatedGas == 101

VARIABLES
  pc,                    \* position of the running executeTransactions call
  thrown,                \* why the last executeTransactions call rejected
  safeAppMode,           \* Boolean(safe) of the wallet store
  testMode,              \* isTest()
  transactionWrappers,   \* the batch the transactions hook returns
  transactionsTimeline,
  isRetrying,
  failedTxIndex,
  isExecutionCompleted,
  isErrorDetailsVisible,
  error,
  retryIndex,            \* parameter of the running executeTransactions call
  loopIndex,             \* i of the loop in handleEoaTransactions
  txGasLimit,            \* gasLimit of txWrappersWithGas (0 = undefined)
  contractReceipts,      \* receipts collected by the running call
  retries,               \* number of retryFailedTransaction calls so far
  sent,                  \* requests handed to the signer by the running call
  inFlight,              \* submitted transactions whose wait() is pending
  receiptsIssued,        \* indices whose wait() has returned a receipt
  simulateRequests,      \* requests to /api/tenderly/simulate by the running call
  safeSendCalls,         \* calls of safeAppsSdk.txs.send by the running call
  results,               \* result events dispatched to the parent
  hookCalls,             \* hooks of the payload invoked by the running call
  safeSendTransactionResponse,
  simulationRes,         \* estimatedGas values the running call read from the simulation
  beforeResult,          \* result of the before hook in the running call (0 = none yet)
  transactionsInputs,    \* arguments the transactions hook was called with, over the flow
  lastError,             \* e of the catch block that ran last in the running call
  timelineAtEntry        \* the timeline when the running call was entered

vars == <<pc, thrown, safeAppMode, testMode, transactionWrappers,
          transactionsTimeline, isRetrying, failedTxIndex,
          isExecutionCompleted, isErrorDetailsVisible, error, retryIndex,
          loopIndex, txGasLimit, contractReceipts, retries, sent, inFlight,
          receiptsIssued, simulateRequests, safeSendCalls, results,
          hookCalls, safeSendTransactionResponse, lastError, simulationRes,
          beforeResult, transactionsInputs, timelineAtEntry>>

----------------------------------------------------------------------------
\* Data

ArrLen(a) == Cardinality(DOMAIN a)

EmptyArr == [k \in {} |-> 0]

TitleOf(k) == <<"tx", k>>

\* transaction.gasLimit as declared by the caller for wrapper k.
DeclaredGasLimit(k) == 50 + k

\* The batches the transactions hook can return: 1..MaxTx wrappers with
\* pairwise different titles, each with or without applyGasBuffer.
Batches ==
  UNION { { [k \in 0..(n - 1) |->
               [title |-> TitleOf(k),
                applyGasBuffer |-> f[k],
                gasLimit |-> DeclaredGasLimit(k)]]
            : f \in [0..(n - 1) -> BOOLEAN] }
          : n \in 1..MaxTx }

\* Error messages, as sequences of characters.
\* "user rejected transaction"
MsgUserRejectedLower ==
  <<"u", "s", "e", "r", " ", "r", "e", "j", "e", "c", "t", "e", "d", " ",
    "t", "r", "a", "n", "s", "a", "c", "t", "i", "o", "n">>

\* "User Rejected Transaction"
MsgUserRejectedTitle ==
  <<"U", "s", "e", "r", " ", "R", "e", "j", "e", "c", "t", "e", "d", " ",
    "T", "r", "a", "n", "s", "a", "c", "t", "i", "o", "n">>

\* "Error: USER REJECTED TRANSACTION (4001)"
MsgUserRejectedUpper ==
  <<"E", "r", "r", "o", "r", ":", " ", "U", "S", "E", "R", " ", "R", "E",
    "J", "E", "C", "T", "E", "D", " ", "T", "R", "A", "N", "S", "A", "C",
    "T", "I", "O", "N", " ", "(", "4", "0", "0", "1", ")">>

\* "User rejected the request."
MsgUserRejectedRequest ==
  <<"U", "s", "e", "r", " ", "r", "e", "j", "e", "c", "t", "e", "d", " ",
    "t", "h", "e", " ", "r", "e", "q", "u", "e", "s", "t", ".">>

\* "execution reverted"
MsgExecutionReverted ==
  <<"e", "x", "e", "c", "u", "t", "i", "o", "n", " ", "r", "e", "v", "e",
    "r", "t", "e", "d">>

\* Messages of the errors a signer, a wait or the Safe backend can throw.
ErrorMessages ==
  {MsgUserRejectedLower, MsgUserRejectedTitle, MsgUserRejectedUpper,
   MsgUserRejectedRequest, MsgExecutionReverted}

\* No error object (undefined).
NoError == <<>>

UpperCaseLetters ==
  <<"A", "B", "C", "D", "E", "F", "G", "H", "I", "J", "K", "L", "M", "N",
    "O", "P", "Q", "R", "S", "T", "U", "V", "W", "X", "Y", "Z">>

LowerCaseLetters ==
  <<"a", "b", "c", "d", "e", "f", "g", "h", "i", "j", "k", "l", "m", "n",
    "o", "p", "q", "r", "s", "t", "u", "v", "w", "x", "y", "z">>

\* String.prototype.toLowerCase on the letters A-Z.
toLowerCase(str) ==
  [n \in 1..Len(str) |->
     IF \E j \in 1..Len(UpperCaseLetters) : UpperCaseLetters[j] = str[n]
       THEN LowerCaseLetters[CHOOSE j \in 1..Len(UpperCaseLetters) :
                               UpperCaseLetters[j] = str[n]]
       ELSE str[n]]

\* String.prototype.includes
includes(str, searchString) ==
  \E n \in 0..(Len(str) - Len(searchString)) :
    SubSeq(str, n + 1, n + Len(searchString)) = searchString

\* estimatedGas values of a simulation response; 0 stands for a missing,
\* non-numeric or non-positive value.
EstimatedGasValues == {0, 100, 101}

NoUrl == <<>>

\* etherscanLink(network.name, hash)
etherscanLink(hash) == <<"https://etherscan.io/tx/", hash>>

\* The hash the signer gives to the submission of wrapper k in call number r.
TxHash(r, k) == r * (MaxTx + 1) + k + 1

----------------------------------------------------------------------------
\* Timeline Tracker

\* Variant: the update is applied to every item, whatever its title.
updateTransactionTimelineStatus_EveryItem(tl, title, updates) ==
  [k \in DOMAIN tl |->
     [f \in DOMAIN tl[k] |->
        IF f \in DOMAIN updates THEN updates[f] ELSE tl[k][f]]]

\* Variant: the items of other wrappers are dropped (filter, then map).
updateTransactionTimelineStatus_Filter(tl, title, updates) ==
  LET matching == {k \in DOMAIN tl : tl[k].title = title}
  IN [n \in 0..(Cardinality(matching) - 1) |->
        LET k == CHOOSE j \in matching : TRUE
        IN [f \in DOMAIN tl[k] |->
              IF f \in DOMAIN updates THEN updates[f] ELSE tl[k][f]]]

updateTransactionTimelineStatus(tl, title, updates) ==
  [k \in DOMAIN tl |->
     IF tl[k].title = title
       THEN [f \in DOMAIN tl[k] |->
               IF f \in DOMAIN updates THEN updates[f] ELSE tl[k][f]]
       ELSE tl[k]]

\* Variant: every item starts awaitingSignature.
initTransactionsTimelineItems_AllAwaitingSignature(ws, isSafe) ==
  [k \in DOMAIN ws |->
     [title |-> ws[k].title,
      message |-> IF k = 0
                    THEN IF isSafe
                           THEN "Waiting for you to submit the transaction in your Safe"
                           ELSE "Waiting for you to confirm the transaction in your wallet"
                    ELSE "Waiting on previous transaction",
      status |-> "awaitingSignature",
      etherscanUrl |-> NoUrl]]

initTransactionsTimelineItems(ws, isSafe) ==
  [k \in DOMAIN ws |->
     [title |-> ws[k].title,
      message |-> IF k = 0
                    THEN IF isSafe
                           THEN "Waiting for you to submit the transaction in your Safe"
                           ELSE "Waiting for you to confirm the transaction in your wallet"
                    ELSE "Waiting on previous transaction",
      status |-> IF k = 0 THEN "awaitingSignature" ELSE "awaitingPrevious",
      etherscanUrl |-> NoUrl]]

\* Variant: the item at the retry index is reset like every other item.
recalculateTimelineStatuses_NoRetrying(tl, idx) ==
  [error |-> NoError,
   isRetrying |-> FALSE,
   failedTxIndex |-> -1,
   isErrorDetailsVisible |-> FALSE,
   transactionsTimeline |->
     [k \in DOMAIN tl |->
        IF tl[k].status = "confirmed"
          THEN tl[k]
          ELSE [tl[k] EXCEPT !.status = "awaitingPrevious",
                             !.message = "Waiting on previous transaction"]]]

\* Variant: confirmed items are reset too.
recalculateTimelineStatuses_ResetsConfirmed(tl, idx) ==
  [error |-> NoError,
   isRetrying |-> FALSE,
   failedTxIndex |-> -1,
   isErrorDetailsVisible |-> FALSE,
   transactionsTimeline |->
     [k \in DOMAIN tl |->
        IF k = idx
          THEN [tl[k] EXCEPT !.status = "retrying",
                             !.message = "Preparing to retry..."]
          ELSE [tl[k] EXCEPT !.status = "awaitingPrevious",
                             !.message = "Waiting on previous transaction"]]]

\* Variant: the failing index is not cleared.
recalculateTimelineStatuses_KeepsFailedTxIndex(tl, idx) ==
  [error |-> NoError,
   isRetrying |-> FALSE,
   failedTxIndex |-> failedTxIndex,
   isErrorDetailsVisible |-> FALSE,
   transactionsTimeline |->
     [k \in DOMAIN tl |->
        IF tl[k].status = "confirmed"
          THEN tl[k]
          ELSE IF k = idx
            THEN [tl[k] EXCEPT !.status = "retrying",
                               !.message = "Preparing to retry..."]
            ELSE [tl[k] EXCEPT !.status = "awaitingPrevious",
                               !.message = "Waiting on previous transaction"]]]

\* Variant: the stored error is not cleared.
recalculateTimelineStatuses_KeepsError(tl, idx) ==
  [error |-> error,
   isRetrying |-> FALSE,
   failedTxIndex |-> -1,
   isErrorDetailsVisible |-> FALSE,
   transactionsTimeline |->
     [k \in DOMAIN tl |->
        IF tl[k].status = "confirmed"
          THEN tl[k]
          ELSE IF k = idx
            THEN [tl[k] EXCEPT !.status = "retrying",
                               !.message = "Preparing to retry..."]
            ELSE [tl[k] EXCEPT !.status = "awaitingPrevious",
                               !.message = "Waiting on previous transaction"]]]

\* Variant: every unconfirmed item from the retry index on is marked
\* retrying.
recalculateTimelineStatuses_RetriesRest(tl, idx) ==
  [error |-> NoError,
   isRetrying |-> FALSE,
   failedTxIndex |-> -1,
   isErrorDetailsVisible |-> FALSE,
   transactionsTimeline |->
     [k \in DOMAIN tl |->
        IF tl[k].status = "confirmed"
          THEN tl[k]
          ELSE IF k >= idx
            THEN [tl[k] EXCEPT !.status = "retrying",
                               !.message = "Preparing to retry..."]
            ELSE [tl[k] EXCEPT !.status = "awaitingPrevious",
                               !.message = "Waiting on previous transaction"]]]

\* The assignments of recalculateTimelineStatuses, as a record of new values.
recalculateTimelineStatuses(tl, idx) ==
  [error |-> NoError,
   isRetrying |-> FALSE,
   failedTxIndex |-> -1,
   isErrorDetailsVisible |-> FALSE,
   transactionsTimeline |->
     [k \in DOMAIN tl |->
        IF tl[k].status = "confirmed"
          THEN tl[k]
          ELSE IF k = idx
            THEN [tl[k] EXCEPT !.status = "retrying",
                               !.message = "Preparing to retry..."]
            ELSE [tl[k] EXCEPT !.status = "awaitingPrevious",
                               !.message = "Waiting on previous transaction"]]]

\* Variant: a rejected item does not stop the attempt.
HasUnfinishedItem_IgnoresRejected(tl) ==
  \E k \in DOMAIN tl : tl[k].status \in {"failed", "retrying"}

\* Variant: a failed item does not stop the attempt.
HasUnfinishedItem_IgnoresFailed(tl) ==
  \E k \in DOMAIN tl : tl[k].status \in {"rejected", "retrying"}

\* Variant: the test of lines 146-150 is left out.
HasUnfinishedItem_Never(tl) == FALSE

\* The test of lines 146-150: the attempt is incomplete.
HasUnfinishedItem(tl) ==
  \E k \in DOMAIN tl : tl[k].status \in {"failed", "rejected", "retrying"}

\* Variant: the product is rounded down.
getGasBuffer_Floor(gasLimit) == (gasLimit * 5) \div 4

\* Math.ceil(gasLimit * 1.25)
getGasBuffer(gasLimit) == (gasLimit * 5 + 3) \div 4

\* Variant: the message is searched without toLowerCase().
IsRejection_CaseSensitive(e) == includes(e, MsgUserRejectedLower)

\* (e as Error).message.toLowerCase().includes('user rejected transaction')
IsRejection(e) == includes(toLowerCase(e), MsgUserRejectedLower)

\* The status and message the catch blocks give to the failing item.
FailureUpdate(e) ==
  IF IsRejection(e)
    THEN [status |-> "rejected", message |-> "You rejected the transaction"]
    ELSE [status |-> "failed", message |-> "Transaction failed"]

needToSimulate(ws) ==
  IF testMode THEN FALSE ELSE \E k \in DOMAIN ws : ws[k].applyGasBuffer

\* The continuation after `await handleEoaTransactions(...)` or `await
\* handleSafeAppTransactions(...)` is a microtask of an already settled
\* promise: no click handler runs before it.
UserCanAct == pc \notin {"eoaReturned", "safeReturned"}

\* Variant: the button is rendered for every retrying row.
RetryShown_AnyRetrying(k) ==
  transactionsTimeline[k].status \in {"failed", "rejected", "retrying"}

\* The "Try again" button of row k is rendered.
RetryShown(k) ==
  \/ transactionsTimeline[k].status \in {"failed", "rejected"}
  \/ transactionsTimeline[k].status = "retrying" /\ k = failedTxIndex

RetryEnabled ==
  /\ UserCanAct
  /\ ~isRetrying
  /\ \E k \in DOMAIN transactionsTimeline : RetryShown(k)

\* The errors thrown for a failed gas estimation (lines 238 and 327).
EstimateGasErrors ==
  {"Unable to estimate gas for transactions: Error: Assertion failed",
   "Unable to estimate gas for transactions: TypeError: Failed to fetch",
   "Unable to estimate gas for Safe Batch operation."}

\* No executeTransactions call is running.
Idle == pc \in {"threw", "incomplete", "done"}

----------------------------------------------------------------------------
Init ==
  /\ pc = "mount"
  /\ thrown = "none"
  /\ safeAppMode \in BOOLEAN
  /\ testMode \in BOOLEAN
  /\ transactionWrappers \in Batches
  /\ transactionsTimeline = EmptyArr
  /\ isRetrying = FALSE
  /\ failedTxIndex = -1
  /\ isExecutionCompleted = FALSE
  /\ isErrorDetailsVisible = FALSE
  /\ error = NoError
  /\ retryIndex = 0
  /\ loopIndex = 0
  /\ txGasLimit = EmptyArr
  /\ contractReceipts = <<>>
  /\ retries = 0
  /\ sent = <<>>
  /\ inFlight = {}
  /\ receiptsIssued = {}
  /\ simulateRequests = 0
  /\ safeSendCalls = <<>>
  /\ results = {}
  /\ hookCalls = <<>>
  /\ safeSendTransactionResponse = "undefined"
  /\ lastError = NoError
  /\ simulationRes = EmptyArr
  /\ beforeResult = 0
  /\ transactionsInputs = <<>>
  /\ timelineAtEntry = EmptyArr

----------------------------------------------------------------------------
\* Orchestrator: executeTransactions

config == <<safeAppMode, testMode, transactionWrappers>>

LastIndex(tl) == ArrLen(tl) - 1

\* The gas limit of the request for wrapper k: executingTx.gasLimit ??
\* executingTx.transaction.gasLimit
RequestGasLimit(gas, k) ==
  IF gas[k] # 0 THEN gas[k] ELSE transactionWrappers[k].gasLimit

\* Variant: the loop always starts at the first wrapper.
LoopStartIndex_FromZero(startIndex) == 0

\* The index the loop of handleEoaTransactions starts at.
LoopStartIndex(startIndex) == startIndex

\* Variant: the loop skips a wrapper.
LoopNextIndex_SkipsOne(k) == k + 2

\* The index the loop moves to after a confirmed transaction (i++).
LoopNextIndex(k) == k + 1

\* The last item is relabelled while the after hook runs (lines 157-160).
FinalizingUpdate ==
  [status |-> "finalizing", message |-> "Transaction confirmed. Wrapping up..."]

\* Variant: the label of the last item is not restored.
AfterDoneUpdate_StaysFinalizing ==
  [status |-> "finalizing", message |-> "Transaction confirmed"]

\* The last item once the after hook has resolved (lines 164-167).
AfterDoneUpdate ==
  [status |-> "confirmed", message |-> "Transaction confirmed"]

\* Lines 146-162 up to the await of the after hook, EOA mode, with the
\* timeline tl left by handleEoaTransactions.
PostDispatchEoa(tl) ==
  IF HasUnfinishedItem(tl)
    THEN /\ pc' = "incomplete"
         /\ transactionsTimeline' = tl
         /\ UNCHANGED hookCalls
    ELSE /\ pc' = "after"
         /\ hookCalls' = Append(hookCalls, "after")
         /\ transactionsTimeline' =
              updateTransactionTimelineStatus(tl,
                transactionWrappers[LastIndex(tl)].title, FinalizingUpdate)

\* The loop of handleEoaTransactions from the test `i < length` at index k
\* up to the next await, or to the return when the loop is over.
LoopStep(k, tl, gas) ==
  IF k < ArrLen(transactionWrappers)
    THEN IF k < 0
      THEN \* txWrappersWithGas[k] is undefined: reading its title throws
           \* in the try block and again in the catch block
           /\ pc' = "threw"
           /\ thrown' = "TypeError: Cannot read properties of undefined"
           /\ transactionsTimeline' = tl
           /\ UNCHANGED <<loopIndex, sent, hookCalls>>
      ELSE /\ pc' = "signing"
           /\ transactionsTimeline' =
                updateTransactionTimelineStatus(tl, transactionWrappers[k].title,
                  [status |-> "awaitingSignature",
                   message |-> "Waiting for you to confirm in your wallet"])
           /\ loopIndex' = k
           /\ sent' = Append(sent, [index |-> k, gasLimit |-> RequestGasLimit(gas, k)])
           /\ UNCHANGED <<thrown, hookCalls>>
    ELSE /\ pc' = "eoaReturned"
         /\ transactionsTimeline' = tl
         /\ UNCHANGED <<thrown, loopIndex, sent, hookCalls>>

\* executeTransactions(idx) up to `await before?.()`.
ExecuteTransactions(idx, retryingNow) ==
  LET reset == failedTxIndex # -1
      r == recalculateTimelineStatuses(transactionsTimeline, idx)
  IN /\ error' = IF reset THEN r.error ELSE error
     /\ isRetrying' = IF reset THEN r.isRetrying ELSE retryingNow
     /\ failedTxIndex' = IF reset THEN r.failedTxIndex ELSE failedTxIndex
     /\ isErrorDetailsVisible' =
          IF reset THEN r.isErrorDetailsVisible ELSE isErrorDetailsVisible
     /\ transactionsTimeline' =
          IF reset THEN r.transactionsTimeline ELSE transactionsTimeline
     /\ timelineAtEntry' = transactionsTimeline
     /\ retryIndex' = idx
     /\ contractReceipts' = <<>>
     /\ txGasLimit' = EmptyArr
     /\ sent' = <<>>
     /\ simulateRequests' = 0
     /\ safeSendCalls' = <<>>
     /\ safeSendTransactionResponse' = "undefined"
     /\ lastError' = NoError
     /\ simulationRes' = EmptyArr
     /\ beforeResult' = 0
     /\ \E hasAddress \in BOOLEAN :
          IF hasAddress
            THEN pc' = "before" /\ thrown' = "none" /\ hookCalls' = <<"before">>
            ELSE pc' = "threw" /\ thrown' = "Assertion failed" /\ hookCalls' = <<>>
     /\ UNCHANGED <<config, isExecutionCompleted, loopIndex, inFlight,
                    receiptsIssued, results, transactionsInputs>>

\* onMount(async () => { await executeTransactions(); })
Mount ==
  /\ pc = "mount"
  /\ ExecuteTransactions(0, isRetrying)
  /\ UNCHANGED retries

\* The "Try again" button: retryFailedTransaction
RetryFailedTransaction ==
  /\ Idle
  /\ RetryEnabled
  /\ retries < MaxRetries
  /\ retries' = retries + 1
  /\ ExecuteTransactions(failedTxIndex, TRUE)

Throw(reason) ==
  /\ pc' = "threw"
  /\ thrown' = reason

\* The value `await before?.()` resolves with: every invocation of the hook
\* gives a result of its own, numbered by the call of executeTransactions.
BeforeResolves == retries + 1

\* Variant: the result given to the first call of the transactions hook is
\* passed again.
transactionsBuilderArgument_Cached(fresh, inputs) ==
  IF inputs # <<>> THEN inputs[1] ELSE fresh

\* The argument of transactionsBuilder(beforeResult), line 119.
transactionsBuilderArgument(fresh, inputs) == fresh

\* `await before?.()` resolves; transactionsBuilder(beforeResult) is called.
BeforeReturns ==
  /\ pc = "before"
  /\ pc' = "transactions"
  /\ beforeResult' = BeforeResolves
  /\ hookCalls' = Append(hookCalls, "transactions")
  /\ transactionsInputs' =
       Append(transactionsInputs,
              transactionsBuilderArgument(BeforeResolves, transactionsInputs))
  /\ UNCHANGED <<thrown, config, transactionsTimeline, isRetrying, failedTxIndex,
                 isExecutionCompleted, isErrorDetailsVisible, error, retryIndex,
                 loopIndex, txGasLimit, contractReceipts, retries, sent, inFlight,
                 receiptsIssued, simulateRequests, safeSendCalls, results,
                 safeSendTransactionResponse,
                 lastError, simulationRes, timelineAtEntry>>

BeforeThrows ==
  /\ pc = "before"
  /\ Throw("before hook error")
  /\ UNCHANGED <<config, transactionsTimeline, isRetrying, failedTxIndex,
                 isExecutionCompleted, isErrorDetailsVisible, error, retryIndex,
                 loopIndex, txGasLimit, contractReceipts, retries, sent, inFlight,
                 receiptsIssued, simulateRequests, safeSendCalls, results,
                 hookCalls, safeSendTransactionResponse,
                 lastError, simulationRes, beforeResult,
                 transactionsInputs, timelineAtEntry>>

\* The transactions hook returns the batch: lines 118-144 and the executor
\* up to its first await.
TransactionsReturns ==
  /\ pc = "transactions"
  /\ LET tl == IF ArrLen(transactionsTimeline) = 0
                 THEN initTransactionsTimelineItems(transactionWrappers, safeAppMode)
                 ELSE transactionsTimeline
         gas == [k \in DOMAIN transactionWrappers |-> 0]
     IN IF safeAppMode
          THEN /\ pc' = "safeSimulate"
               /\ simulateRequests' = simulateRequests + 1
               /\ transactionsTimeline' = tl
               /\ UNCHANGED <<thrown, loopIndex, sent, txGasLimit, hookCalls>>
          ELSE /\ txGasLimit' = gas
               /\ IF needToSimulate(transactionWrappers)
                    THEN /\ pc' = "eoaSimulate"
                         /\ simulateRequests' = simulateRequests + 1
                         /\ transactionsTimeline' = tl
                         /\ UNCHANGED <<thrown, loopIndex, sent, hookCalls>>
                    ELSE /\ LoopStep(LoopStartIndex(retryIndex), tl, gas)
                         /\ UNCHANGED simulateRequests
  /\ UNCHANGED <<config, isRetrying, failedTxIndex, isExecutionCompleted,
                 isErrorDetailsVisible, error, retryIndex, contractReceipts,
                 retries, inFlight, receiptsIssued, safeSendCalls, results,
                 safeSendTransactionResponse,
                 lastError, simulationRes, beforeResult,
                 transactionsInputs, timelineAtEntry>>

TransactionsThrows ==
  /\ pc = "transactions"
  /\ Throw("transactions hook error")
  /\ UNCHANGED <<config, transactionsTimeline, isRetrying, failedTxIndex,
                 isExecutionCompleted, isErrorDetailsVisible, error, retryIndex,
                 loopIndex, txGasLimit, contractReceipts, retries, sent, inFlight,
                 receiptsIssued, simulateRequests, safeSendCalls, results,
                 hookCalls, safeSendTransactionResponse,
                 lastError, simulationRes, beforeResult,
                 transactionsInputs, timelineAtEntry>>

----------------------------------------------------------------------------
\* Direct-signing executor: handleEoaTransactions

\* The simulation answers with one estimatedGas per wrapper.
EoaSimulateReturns ==
  /\ pc = "eoaSimulate"
  /\ \E res \in [DOMAIN transactionWrappers -> EstimatedGasValues] :
       /\ simulationRes' =
            [k \in {j \in DOMAIN transactionWrappers :
                      transactionWrappers[j].applyGasBuffer} |-> res[k]]
       /\ IF \E k \in DOMAIN transactionWrappers :
               transactionWrappers[k].applyGasBuffer /\ res[k] = 0
            THEN /\ Throw("Unable to estimate gas for transactions: Error: Assertion failed")
                 /\ UNCHANGED <<transactionsTimeline, loopIndex, sent, txGasLimit, hookCalls>>
            ELSE LET gas == [k \in DOMAIN transactionWrappers |->
                               IF transactionWrappers[k].applyGasBuffer
                                 THEN getGasBuffer(res[k]) ELSE 0]
                 IN /\ txGasLimit' = gas
                    /\ LoopStep(LoopStartIndex(retryIndex), transactionsTimeline, gas)
  /\ UNCHANGED <<config, isRetrying, failedTxIndex, isExecutionCompleted,
                 isErrorDetailsVisible, error, retryIndex, contractReceipts,
                 retries, inFlight, receiptsIssued, simulateRequests,
                 safeSendCalls, results, safeSendTransactionResponse,
                 lastError, beforeResult,
                 transactionsInputs, timelineAtEntry>>

\* fetch or json() throws.
EoaSimulateFails ==
  /\ pc = "eoaSimulate"
  /\ Throw("Unable to estimate gas for transactions: TypeError: Failed to fetch")
  /\ UNCHANGED <<config, transactionsTimeline, isRetrying, failedTxIndex,
                 isExecutionCompleted, isErrorDetailsVisible, error, retryIndex,
                 loopIndex, txGasLimit, contractReceipts, retries, sent, inFlight,
                 receiptsIssued, simulateRequests, safeSendCalls, results,
                 hookCalls, safeSendTransactionResponse,
                 lastError, simulationRes, beforeResult,
                 transactionsInputs, timelineAtEntry>>

\* signer.sendTransaction resolves with a response.
SendReturns ==
  /\ pc = "signing"
  /\ pc' = "waiting"
  /\ transactionsTimeline' =
       updateTransactionTimelineStatus(transactionsTimeline,
         transactionWrappers[loopIndex].title,
         [status |-> "pending",
          message |-> "Waiting for confirmation",
          etherscanUrl |-> etherscanLink(TxHash(retries, loopIndex))])
  /\ inFlight' = inFlight \cup {loopIndex}
  /\ UNCHANGED <<thrown, config, isRetrying, failedTxIndex, isExecutionCompleted,
                 isErrorDetailsVisible, error, retryIndex, loopIndex, txGasLimit,
                 contractReceipts, retries, sent, receiptsIssued,
                 simulateRequests, safeSendCalls, results, hookCalls, safeSendTransactionResponse,
                 lastError, simulationRes, beforeResult,
                 transactionsInputs, timelineAtEntry>>

\* The catch block of the loop for an error with message e, then the break
\* and the return of handleEoaTransactions.
EoaCatch(e) ==
  /\ error' = IF IsRejection(e) THEN error ELSE e
  /\ lastError' = e
  /\ failedTxIndex' = loopIndex
  /\ transactionsTimeline' =
       updateTransactionTimelineStatus(transactionsTimeline,
         transactionWrappers[loopIndex].title, FailureUpdate(e))
  /\ pc' = "eoaReturned"
  /\ inFlight' = inFlight \ {loopIndex}
  /\ UNCHANGED <<thrown, hookCalls, config, isRetrying, isExecutionCompleted,
                 isErrorDetailsVisible, retryIndex, loopIndex, txGasLimit,
                 contractReceipts, retries, sent, receiptsIssued,
                 simulateRequests, safeSendCalls, results, safeSendTransactionResponse,
                 simulationRes, beforeResult,
                 transactionsInputs, timelineAtEntry>>

\* executeTransactions resumes after `await handleEoaTransactions(...)`.
EoaDispatchReturns ==
  /\ pc = "eoaReturned"
  /\ PostDispatchEoa(transactionsTimeline)
  /\ UNCHANGED <<thrown, config, isRetrying, failedTxIndex, isExecutionCompleted,
                 isErrorDetailsVisible, error, retryIndex, loopIndex, txGasLimit,
                 contractReceipts, retries, sent, inFlight, receiptsIssued,
                 simulateRequests, safeSendCalls, results,
                 safeSendTransactionResponse, lastError, simulationRes, beforeResult,
                 transactionsInputs, timelineAtEntry>>

\* signer.sendTransaction rejects (or there is no signer).
SendThrows ==
  /\ pc = "signing"
  /\ \E e \in ErrorMessages : EoaCatch(e)

\* txResponse.wait() rejects.
WaitThrows ==
  /\ pc = "waiting"
  /\ \E e \in ErrorMessages : EoaCatch(e)

\* txResponse.wait() resolves with the receipt.
WaitReturns ==
  /\ pc = "waiting"
  /\ contractReceipts' = Append(contractReceipts, TxHash(retries, loopIndex))
  /\ inFlight' = inFlight \ {loopIndex}
  /\ receiptsIssued' = receiptsIssued \cup {loopIndex}
  /\ LoopStep(LoopNextIndex(loopIndex),
       updateTransactionTimelineStatus(transactionsTimeline,
         transactionWrappers[loopIndex].title,
         [status |-> "confirmed",
          message |-> "Transaction confirmed",
          etherscanUrl |-> etherscanLink(TxHash(retries, loopIndex))]),
       txGasLimit)
  /\ UNCHANGED <<config, isRetrying, failedTxIndex, isExecutionCompleted,
                 isErrorDetailsVisible, error, retryIndex, txGasLimit, retries,
                 simulateRequests, safeSendCalls, results, safeSendTransactionResponse,
                 lastError, simulationRes, beforeResult,
                 transactionsInputs, timelineAtEntry>>

\* The after hook resolves (or there is none): lines 164-183.
AfterReturns ==
  /\ pc = "after"
  /\ pc' = "done"
  /\ transactionsTimeline' =
       updateTransactionTimelineStatus(transactionsTimeline,
         transactionWrappers[LastIndex(transactionsTimeline)].title,
         AfterDoneUpdate)
  /\ isRetrying' = FALSE
  /\ isExecutionCompleted' = TRUE
  /\ UNCHANGED <<thrown, config, failedTxIndex, isErrorDetailsVisible, error,
                 retryIndex, loopIndex, txGasLimit, contractReceipts, retries,
                 sent, inFlight, receiptsIssued, simulateRequests,
                 safeSendCalls, results, hookCalls, safeSendTransactionResponse,
                 lastError, simulationRes, beforeResult,
                 transactionsInputs, timelineAtEntry>>

\* The after hook rejects: lines 168-170 and 181-183.
AfterThrows ==
  /\ pc = "after"
  /\ pc' = "done"
  /\ results' = results \cup {"failure"}
  /\ isRetrying' = FALSE
  /\ isExecutionCompleted' = TRUE
  /\ UNCHANGED <<thrown, config, transactionsTimeline, failedTxIndex,
                 isErrorDetailsVisible, error, retryIndex, loopIndex, txGasLimit,
                 contractReceipts, retries, sent, inFlight, receiptsIssued,
                 simulateRequests, safeSendCalls, hookCalls, safeSendTransactionResponse,
                 lastError, simulationRes, beforeResult,
                 transactionsInputs, timelineAtEntry>>

----------------------------------------------------------------------------
\* Multisig executor: handleSafeAppTransactions

\* Variant: the after hook is invoked in Safe mode as well.
PostDispatchSafe_InvokesAfter(tl, hasResponse) ==
  IF HasUnfinishedItem(tl)
  THEN /\ pc' = "incomplete"
       /\ UNCHANGED <<thrown, isRetrying, isExecutionCompleted, hookCalls>>
  ELSE \E hasAfterSafe \in BOOLEAN :
         IF hasAfterSafe
           THEN IF hasResponse
                  THEN /\ pc' = "afterSafe"
                       /\ hookCalls' = Append(hookCalls, "after")
                       /\ UNCHANGED <<thrown, isRetrying, isExecutionCompleted>>
                  ELSE /\ Throw("Expected SafeSendTransactionResponse to be defined.")
                       /\ UNCHANGED <<isRetrying, isExecutionCompleted, hookCalls>>
           ELSE /\ pc' = "done"
                /\ isRetrying' = FALSE
                /\ isExecutionCompleted' = TRUE
                /\ UNCHANGED <<thrown, hookCalls>>

\* Lines 146-183 after handleSafeAppTransactions returned, Safe mode, with
\* the timeline tl; hasResponse tells whether a response was returned.
PostDispatchSafe(tl, hasResponse) ==
  IF HasUnfinishedItem(tl)
  THEN /\ pc' = "incomplete"
       /\ UNCHANGED <<thrown, isRetrying, isExecutionCompleted, hookCalls>>
  ELSE \E hasAfterSafe \in BOOLEAN :
         IF hasAfterSafe
           THEN IF hasResponse
                  THEN /\ pc' = "afterSafe"
                       /\ hookCalls' = Append(hookCalls, "afterSafe")
                       /\ UNCHANGED <<thrown, isRetrying, isExecutionCompleted>>
                  ELSE /\ Throw("Expected SafeSendTransactionResponse to be defined.")
                       /\ UNCHANGED <<isRetrying, isExecutionCompleted, hookCalls>>
           ELSE /\ pc' = "done"
                /\ isRetrying' = FALSE
                /\ isExecutionCompleted' = TRUE
                /\ UNCHANGED <<thrown, hookCalls>>

\* The simulation answers: lines 323-345 up to the await of txs.send.
SafeSimulateReturns ==
  /\ pc = "safeSimulate"
  /\ \E estimatedGas \in EstimatedGasValues :
       /\ simulationRes' = [k \in {0} |-> estimatedGas]
       /\ IF ArrLen(transactionWrappers) = 1
            THEN /\ pc' = "safeSend"
                 /\ safeSendCalls' = Append(safeSendCalls, getGasBuffer(estimatedGas))
                 /\ UNCHANGED thrown
            ELSE /\ Throw("Expected only one transaction in Safe mode.")
                 /\ UNCHANGED safeSendCalls
  /\ UNCHANGED <<config, transactionsTimeline, isRetrying, failedTxIndex,
                 isExecutionCompleted, isErrorDetailsVisible, error, retryIndex,
                 loopIndex, txGasLimit, contractReceipts, retries, sent, inFlight,
                 receiptsIssued, simulateRequests, results, hookCalls, safeSendTransactionResponse,
                 lastError, beforeResult,
                 transactionsInputs, timelineAtEntry>>

\* fetch or json() throws.
SafeSimulateFails ==
  /\ pc = "safeSimulate"
  /\ Throw("Unable to estimate gas for Safe Batch operation.")
  /\ UNCHANGED <<config, transactionsTimeline, isRetrying, failedTxIndex,
                 isExecutionCompleted, isErrorDetailsVisible, error, retryIndex,
                 loopIndex, txGasLimit, contractReceipts, retries, sent, inFlight,
                 receiptsIssued, simulateRequests, safeSendCalls, results,
                 hookCalls, safeSendTransactionResponse,
                 lastError, simulationRes, beforeResult,
                 transactionsInputs, timelineAtEntry>>

\* safeAppsSdk.txs.send resolves.
SafeSendReturns ==
  /\ pc = "safeSend"
  /\ pc' = "safeReturned"
  /\ transactionsTimeline' =
       updateTransactionTimelineStatus(transactionsTimeline,
         transactionWrappers[0].title,
         [status |-> "submittedToSafe",
          message |-> "Transaction submitted to Safe"])
  /\ safeSendTransactionResponse' = "response"
  /\ UNCHANGED <<thrown, hookCalls, isRetrying, isExecutionCompleted, config,
                 failedTxIndex, isErrorDetailsVisible, error, retryIndex,
                 loopIndex, txGasLimit, contractReceipts, retries, sent, inFlight,
                 receiptsIssued, simulateRequests, safeSendCalls, results,
                 lastError, simulationRes, beforeResult,
                 transactionsInputs, timelineAtEntry>>

\* The index the catch block of handleSafeAppTransactions records.
SafeFailedTxIndex(e) == IF IsRejection(e) THEN failedTxIndex ELSE 0

\* The catch block of handleSafeAppTransactions for an error with message
\* e (lines 353-371); the function then returns undefined.
SafeCatch(e) ==
  /\ lastError' = e
  /\ error' = IF IsRejection(e) THEN error ELSE e
  /\ failedTxIndex' = SafeFailedTxIndex(e)
  /\ transactionsTimeline' =
       updateTransactionTimelineStatus(transactionsTimeline,
         transactionWrappers[0].title, FailureUpdate(e))
  /\ pc' = "safeReturned"
  /\ UNCHANGED <<thrown, hookCalls, isRetrying, isExecutionCompleted, config,
                 isErrorDetailsVisible, retryIndex, loopIndex, txGasLimit,
                 contractReceipts, retries, sent, inFlight, receiptsIssued,
                 simulateRequests, safeSendCalls, results,
                 safeSendTransactionResponse, simulationRes, beforeResult,
                 transactionsInputs, timelineAtEntry>>

\* safeAppsSdk.txs.send rejects.
SafeSendThrows ==
  /\ pc = "safeSend"
  /\ \E e \in ErrorMessages : SafeCatch(e)

\* executeTransactions resumes after `await handleSafeAppTransactions(...)`.
SafeDispatchReturns ==
  /\ pc = "safeReturned"
  /\ PostDispatchSafe(transactionsTimeline, safeSendTransactionResponse # "undefined")
  /\ UNCHANGED <<config, transactionsTimeline, failedTxIndex,
                 isErrorDetailsVisible, error, retryIndex, loopIndex, txGasLimit,
                 contractReceipts, retries, sent, inFlight, receiptsIssued,
                 simulateRequests, safeSendCalls, results,
                 safeSendTransactionResponse, lastError, simulationRes, beforeResult,
                 transactionsInputs, timelineAtEntry>>

AfterSafeReturns ==
  /\ pc = "afterSafe"
  /\ pc' = "done"
  /\ isRetrying' = FALSE
  /\ isExecutionCompleted' = TRUE
  /\ UNCHANGED <<thrown, config, transactionsTimeline, failedTxIndex,
                 isErrorDetailsVisible, error, retryIndex, loopIndex, txGasLimit,
                 contractReceipts, retries, sent, inFlight, receiptsIssued,
                 simulateRequests, safeSendCalls, results, hookCalls, safeSendTransactionResponse,
                 lastError, simulationRes, beforeResult,
                 transactionsInputs, timelineAtEntry>>

AfterSafeThrows ==
  /\ pc = "afterSafe"
  /\ pc' = "done"
  /\ results' = results \cup {"failure"}
  /\ isRetrying' = FALSE
  /\ isExecutionCompleted' = TRUE
  /\ UNCHANGED <<thrown, config, transactionsTimeline, failedTxIndex,
                 isErrorDetailsVisible, error, retryIndex, loopIndex, txGasLimit,
                 contractReceipts, retries, sent, inFlight, receiptsIssued,
                 simulateRequests, safeSendCalls, hookCalls, safeSendTransactionResponse,
                 lastError, simulationRes, beforeResult,
                 transactionsInputs, timelineAtEntry>>

----------------------------------------------------------------------------
\* Buttons of the template

\* The "Show error" / "Hide error" button of a failed row.
toggleErrorDetails ==
  \E index \in DOMAIN transactionsTimeline :
    /\ UserCanAct
    /\ transactionsTimeline[index].status = "failed"
    /\ failedTxIndex' = index
    /\ isErrorDetailsVisible' = ~isErrorDetailsVisible
    /\ UNCHANGED <<pc, thrown, config, transactionsTimeline, isRetrying,
                   isExecutionCompleted, error, retryIndex, loopIndex, txGasLimit,
                   contractReceipts, retries, sent, inFlight, receiptsIssued,
                   simulateRequests, safeSendCalls, results, hookCalls, safeSendTransactionResponse,
                 lastError, simulationRes, beforeResult,
                 transactionsInputs, timelineAtEntry>>

\* The "Continue" button.
Continue ==
  /\ isExecutionCompleted
  /\ "success" \notin results
  /\ results' = results \cup {"success"}
  /\ UNCHANGED <<pc, thrown, config, transactionsTimeline, isRetrying,
                 failedTxIndex, isExecutionCompleted, isErrorDetailsVisible, error,
                 retryIndex, loopIndex, txGasLimit, contractReceipts, retries,
                 sent, inFlight, receiptsIssued, simulateRequests, safeSendCalls,
                 hookCalls, safeSendTransactionResponse,
                 lastError, simulationRes, beforeResult,
                 transactionsInputs, timelineAtEntry>>

----------------------------------------------------------------------------
Next ==
  \/ Mount
  \/ RetryFailedTransaction
  \/ BeforeReturns
  \/ BeforeThrows
  \/ TransactionsReturns
  \/ TransactionsThrows
  \/ EoaSimulateReturns
  \/ EoaSimulateFails
  \/ EoaDispatchReturns
  \/ SendReturns
  \/ SendThrows
  \/ WaitReturns
  \/ WaitThrows
  \/ AfterReturns
  \/ AfterThrows
  \/ SafeSimulateReturns
  \/ SafeSimulateFails
  \/ SafeSendReturns
  \/ SafeSendThrows
  \/ SafeDispatchReturns
  \/ AfterSafeReturns
  \/ AfterSafeThrows
  \/ toggleErrorDetails
  \/ Continue

Spec == Init /\ [][Next]_vars

TypeOK ==
  /\ pc \in {"mount", "before", "transactions", "eoaSimulate", "signing",
             "waiting", "eoaReturned", "after", "safeSimulate", "safeSend",
             "safeReturned", "afterSafe",
             "threw", "incomplete", "done"}
  /\ failedTxIndex \in -1..(MaxTx - 1)
  /\ retries \in 0..MaxRetries
  /\ results \subseteq {"success", "failure"}

\* The button can only be pressed while no call is running, so two calls of
\* executeTransactions never overlap.
RetryOnlyWhenIdle == RetryEnabled => Idle

----------------------------------------------------------------------------
\* Properties

Status(k) == transactionsTimeline[k].status

Indices == DOMAIN transactionsTimeline

SentIndices == { sent[n].index : n \in 1..Len(sent) }

\* C1: in EOA mode, during and after a retry started from index k, no
\* transaction with an index below k has been handed to the signer by that
\* call, and every timeline item below k is exactly as it was when the retry
\* was started (status, message and explorer link).
C1_RetryKeepsPrefix ==
  (~safeAppMode /\ retries > 0) =>
    \A j \in Indices :
      j < retryIndex =>
        /\ j \notin SentIndices
        /\ transactionsTimeline[j] = timelineAtEntry[j]

C1_Witness ==
  /\ ~safeAppMode
  /\ retries > 0
  /\ retryIndex >= 1
  /\ pc = "done"
  /\ retryIndex \in SentIndices
  /\ transactionsTimeline[0].etherscanUrl # NoUrl

\* C2: in EOA mode, whenever transaction i is with the signer or awaiting
\* its confirmation, every earlier transaction has had its wait() return a
\* receipt and its item is confirmed; nothing is in flight while a request
\* is with the signer, and at most one transaction is in flight.
C2_SequentialSubmission ==
  ~safeAppMode =>
    /\ Cardinality(inFlight) <= 1
    /\ pc = "signing" => inFlight = {}
    /\ pc \in {"signing", "waiting"} =>
         \A j \in 0..(loopIndex - 1) :
           Status(j) = "confirmed" /\ j \in receiptsIssued

C2_Witness ==
  /\ ~safeAppMode
  /\ pc = "signing"
  /\ loopIndex = 2
  /\ retries > 0
  /\ retryIndex = 1

\* C3: a call of executeTransactions in which nothing failed ends with one
\* timeline item per wrapper, in wrapper order, all confirmed (EOA) or the
\* single item submittedToSafe (multisig), and with the completion flag set.
C3_CleanRunCompletes ==
  (pc = "done" /\ "failure" \notin results) =>
    /\ isExecutionCompleted
    /\ DOMAIN transactionsTimeline = DOMAIN transactionWrappers
    /\ \A k \in Indices : transactionsTimeline[k].title = transactionWrappers[k].title
    /\ IF safeAppMode
         THEN ArrLen(transactionsTimeline) = 1 /\ Status(0) = "submittedToSafe"
         ELSE \A k \in Indices : Status(k) = "confirmed"

C3_Witness ==
  /\ pc = "done"
  /\ "failure" \notin results
  /\ ~safeAppMode
  /\ retries = 0
  /\ ArrLen(transactionsTimeline) = MaxTx
  /\ Len(contractReceipts) = MaxTx

\* The state right after the catch block of the EOA loop ran for index
\* loopIndex.
C4_AfterCatch ==
  /\ pc = "eoaReturned"
  /\ Status(loopIndex) \in {"rejected", "failed"}
  /\ failedTxIndex = loopIndex
  /\ \A j \in Indices : j < loopIndex => Status(j) = "confirmed"
  /\ \A j \in Indices : j > loopIndex => Status(j) = "awaitingPrevious"
  /\ \A j \in SentIndices : j <= loopIndex
  /\ ~isExecutionCompleted

\* C4: in EOA mode, when sendTransaction or wait() of transaction i throws,
\* item i becomes rejected or failed, failedTxIndex becomes i, the items
\* before i are confirmed, the items after i are awaitingPrevious and were
\* not submitted; executeTransactions then returns without touching the
\* timeline or the completion flag, and nothing is submitted until a retry.
C4_FailureStopsLoop ==
  [][ /\ (~safeAppMode /\ (SendThrows \/ WaitThrows)) => C4_AfterCatch'
      /\ (~safeAppMode /\ pc = "eoaReturned" /\ failedTxIndex # -1) =>
           /\ pc' = "incomplete"
           /\ UNCHANGED <<transactionsTimeline, failedTxIndex, sent,
                          isExecutionCompleted>>
      /\ (~safeAppMode /\ pc = "incomplete" /\ pc' = "incomplete") =>
           UNCHANGED <<transactionsTimeline, sent, isExecutionCompleted>>
    ]_vars

C4_Witness ==
  /\ ~safeAppMode
  /\ pc = "incomplete"
  /\ ArrLen(transactionsTimeline) = 2
  /\ Status(0) = "confirmed"
  /\ Status(1) = "rejected"
  /\ failedTxIndex = 1
  /\ SentIndices = {0, 1}
  /\ ~isExecutionCompleted

\* C5: in EOA mode, pressing "Try again" after a failure at index k leaves
\* the items below k confirmed and makes item k retrying; when the after
\* hook of a retry call resolves, every item is confirmed and the completion
\* flag is set.
C5_RetryResumes ==
  [][ /\ (~safeAppMode /\ RetryFailedTransaction) =>
           /\ retryIndex' = failedTxIndex
           /\ \A j \in Indices : j < failedTxIndex =>
                transactionsTimeline'[j].status = "confirmed"
           /\ transactionsTimeline'[failedTxIndex].status = "retrying"
      /\ (~safeAppMode /\ retries > 0 /\ AfterReturns) =>
           /\ \A j \in Indices : transactionsTimeline'[j].status = "confirmed"
           /\ isExecutionCompleted'
    ]_vars

C5_Witness ==
  /\ ~safeAppMode
  /\ retries = 1
  /\ retryIndex = 1
  /\ pc = "done"
  /\ "failure" \notin results
  /\ ArrLen(transactionsTimeline) = 2
  /\ \A k \in Indices : Status(k) = "confirmed"
  /\ isExecutionCompleted

\* C6: the continue action is enabled only if every timeline item is
\* confirmed (EOA) or the single item is submittedToSafe (multisig).
C6_ContinueOnlyWhenAllConfirmed ==
  isExecutionCompleted =>
    IF safeAppMode
      THEN ArrLen(transactionsTimeline) = 1 /\ Status(0) = "submittedToSafe"
      ELSE \A k \in Indices : Status(k) = "confirmed"

\* C7 as stated: a confirmed item stays confirmed in every step.
C7_ConfirmedNeverExited ==
  [][ \A k \in Indices :
        Status(k) = "confirmed" => transactionsTimeline'[k].status = "confirmed"
    ]_vars

\* C7: a confirmed item is never changed by the submission loop or by the
\* reset on retry; the only change is that the last item is relabelled
\* finalizing when the after hook is started, and a finalizing item only
\* ever becomes confirmed again, with its title and explorer link kept.
C7_ConfirmedOnlyRelabelled ==
  [][ \A k \in Indices :
        /\ Status(k) = "confirmed" =>
             \/ transactionsTimeline'[k] = transactionsTimeline[k]
             \/ /\ transactionsTimeline'[k].status = "finalizing"
                /\ k = LastIndex(transactionsTimeline)
                /\ pc = "eoaReturned" /\ pc' = "after"
        /\ Status(k) = "finalizing" =>
             transactionsTimeline'[k].status \in {"finalizing", "confirmed"}
        /\ Status(k) \in {"confirmed", "finalizing"} =>
             /\ transactionsTimeline'[k].title = transactionsTimeline[k].title
             /\ transactionsTimeline'[k].etherscanUrl = transactionsTimeline[k].etherscanUrl
    ]_vars

C7_Witness ==
  /\ ~safeAppMode
  /\ retries > 0
  /\ retryIndex = 1
  /\ pc = "before"
  /\ Status(0) = "confirmed"
  /\ Status(1) = "retrying"

\* C8: failedTxIndex differs from -1 if and only if some timeline item is
\* failed, rejected or retrying.
C8_FailedTxIndexIffFailedItem ==
  (failedTxIndex # -1) <=>
    (\E k \in Indices : Status(k) \in {"failed", "rejected", "retrying"})

\* C9: in multisig mode with more than one wrapper no request is sent to
\* the simulation service, and the call fails with the invariant error.
C9_SafeInvariantBeforeSimulation ==
  (safeAppMode /\ ArrLen(transactionWrappers) > 1) =>
    /\ simulateRequests = 0
    /\ (pc = "threw" /\ Len(hookCalls) = 2) =>
         thrown = "Expected only one transaction in Safe mode."

\* C10 as stated: after a failed simulation no item is awaitingSignature,
\* nothing was submitted and failedTxIndex is -1.
C10_NoAwaitingSignatureOnSimulationFailure ==
  (pc = "threw" /\ thrown \in EstimateGasErrors) =>
    /\ \A k \in Indices : Status(k) # "awaitingSignature"
    /\ sent = <<>>
    /\ safeSendCalls = <<>>
    /\ failedTxIndex = -1

\* C10: after a failed simulation nothing was submitted to the signer or to
\* the Safe backend, failedTxIndex is -1, and no item was made
\* awaitingSignature by the call: the only item with that status is item 0
\* of a first attempt, exactly as timeline initialization left it.
C10_SimulationFailureSubmitsNothing ==
  (pc = "threw" /\ thrown \in EstimateGasErrors) =>
    /\ sent = <<>>
    /\ safeSendCalls = <<>>
    /\ failedTxIndex = -1
    /\ \A k \in Indices :
         Status(k) = "awaitingSignature" =>
           /\ k = 0
           /\ retries = 0
           /\ transactionsTimeline[k] =
                initTransactionsTimelineItems(transactionWrappers, safeAppMode)[k]

C10_Witness ==
  /\ pc = "threw"
  /\ thrown \in EstimateGasErrors
  /\ ~safeAppMode
  /\ simulateRequests = 1
  /\ Status(0) = "awaitingSignature"

\* The messages that contain "user rejected transaction" in some letter case.
RejectionMessages ==
  {MsgUserRejectedLower, MsgUserRejectedTitle, MsgUserRejectedUpper}

\* The item the catch block of the running path updates.
CaughtIndex == IF safeAppMode THEN 0 ELSE loopIndex

\* C11: on both paths, once the catch block has handled an error, the item
\* of the transaction that threw is rejected (and the stored error object is
\* not this error) when the message contains "user rejected transaction" in
\* any letter case; for any other message the item is failed and the error
\* object is stored. A rejection is never shown as failed.
C11_RejectionClassification ==
  (lastError # NoError /\ pc \in {"eoaReturned", "safeReturned", "incomplete"}) =>
    IF lastError \in RejectionMessages
      THEN /\ Status(CaughtIndex) = "rejected"
           /\ error # lastError
      ELSE /\ Status(CaughtIndex) = "failed"
           /\ error = lastError

C11_Witness ==
  /\ pc = "incomplete"
  /\ lastError = MsgUserRejectedUpper
  /\ Status(CaughtIndex) = "rejected"
  /\ error = NoError

\* The least integer that is at least g * 5 / 4.
CeilFiveQuarters(g) ==
  CHOOSE n \in 0..(2 * g) : 4 * n >= 5 * g /\ 4 * (n - 1) < 5 * g

BufferIsCeil ==
  /\ getGasBuffer(100) = 125
  /\ getGasBuffer(101) = 127
  /\ \A g \in 1..MaxEstimatedGas : getGasBuffer(g) = CeilFiveQuarters(g)

\* C12 as stated: the buffered limit is ceil(g * 5 / 4), and in EOA mode
\* every flagged wrapper is submitted with the buffered limit of its
\* estimate and every other wrapper with its declared limit.
C12_FlaggedAlwaysBuffered ==
  /\ BufferIsCeil
  /\ ~safeAppMode =>
       \A n \in 1..Len(sent) :
         LET k == sent[n].index
         IN IF transactionWrappers[k].applyGasBuffer
              THEN /\ k \in DOMAIN simulationRes
                   /\ sent[n].gasLimit = CeilFiveQuarters(simulationRes[k])
              ELSE sent[n].gasLimit = transactionWrappers[k].gasLimit

\* C12: the buffered limit of a positive estimate g is ceil(g * 5 / 4)
\* (100 -> 125, 101 -> 127). In EOA mode, outside the test build, a flagged
\* wrapper is submitted with the buffered limit of its estimate and a
\* wrapper that is not flagged with its declared limit, also when the batch
\* was simulated; in the test build nothing is simulated and every wrapper
\* is submitted with its declared limit.
C12_GasLimitOfRequests ==
  /\ BufferIsCeil
  /\ ~safeAppMode =>
       \A n \in 1..Len(sent) :
         LET k == sent[n].index
         IN IF transactionWrappers[k].applyGasBuffer /\ ~testMode
              THEN /\ k \in DOMAIN simulationRes
                   /\ sent[n].gasLimit = CeilFiveQuarters(simulationRes[k])
              ELSE sent[n].gasLimit = transactionWrappers[k].gasLimit

C12_Witness ==
  /\ ~safeAppMode
  /\ ~testMode
  /\ simulateRequests = 1
  /\ \E n \in 1..Len(sent) :
       /\ transactionWrappers[sent[n].index].applyGasBuffer
       /\ simulationRes[sent[n].index] = 101
       /\ sent[n].gasLimit = 127
  /\ \E n \in 1..Len(sent) :
       /\ ~transactionWrappers[sent[n].index].applyGasBuffer
       /\ sent[n].gasLimit = transactionWrappers[sent[n].index].gasLimit

\* A call of executeTransactions started by retryFailedTransaction has
\* neither returned nor thrown.
RetryInProgress == retries > 0 /\ ~Idle

\* C13: while a retry is in progress no "Try again" button can be pressed,
\* so retryFailedTransaction cannot start a second call of
\* executeTransactions; in EOA and in Safe mode, whether or not the failure
\* had set failedTxIndex.
C13_SingleFlightRetry ==
  RetryInProgress =>
    \A k \in Indices : ~(UserCanAct /\ RetryShown(k) /\ ~isRetrying)

C13_Witness ==
  /\ RetryInProgress
  /\ safeAppMode
  /\ pc = "safeSend"
  /\ timelineAtEntry[0].status = "rejected"
  /\ failedTxIndex = -1
  /\ RetryShown(0)
  /\ isRetrying

\* A retry of a failure that had set failedTxIndex: the reset has cleared
\* isRetrying and the retried row no longer shows the button.
C13_WitnessEoa ==
  /\ RetryInProgress
  /\ ~safeAppMode
  /\ pc = "signing"
  /\ retryIndex = 1
  /\ ~isRetrying

\* The titles of an array of wrappers or of timeline items, in order.
Titles(a) == [k \in DOMAIN a |-> a[k].title]

\* C14: once the timeline is initialized it has one item per wrapper, in
\* the order of the wrappers, and no step (a status update, a reset on
\* retry, a new call of executeTransactions) adds, removes or reorders
\* items.
C14_TimelineShapeFixed ==
  [][transactionsTimeline # EmptyArr =>
       /\ Titles(transactionsTimeline) = Titles(transactionWrappers)
       /\ Titles(transactionsTimeline') = Titles(transactionsTimeline)]_vars

C14_Witness ==
  /\ retries > 0
  /\ ArrLen(transactionsTimeline) = ArrLen(transactionWrappers)
  /\ ArrLen(transactionsTimeline) >= 2
  /\ Status(0) = "confirmed"
  /\ Status(1) = "failed"
  /\ timelineAtEntry[1].status = "rejected"

RetryingItems == {k \in Indices : Status(k) = "retrying"}

\* C15: in every reachable state at most one timeline item has the status
\* retrying.
C15_AtMostOneRetrying == Cardinality(RetryingItems) <= 1

C15_Witness ==
  /\ retries > 0
  /\ pc = "before"
  /\ RetryingItems = {1}
  /\ Status(0) = "confirmed"
  /\ ArrLen(transactionsTimeline) = 3
  /\ Status(2) = "awaitingPrevious"

\* C16: in multisig mode, once the catch block of handleSafeAppTransactions
\* has handled an error of the backend, failedTxIndex is 0, for a user
\* rejection as for any other error.
C16_SafeCatchSetsFailedTxIndex ==
  (safeAppMode /\ lastError # NoError /\ pc \in {"safeReturned", "incomplete"}) =>
    failedTxIndex = 0

\* C17: whenever an item is failed or rejected and no call of
\* executeTransactions is running, a "Try again" button is rendered and
\* enabled.
C17_RetryOfferedForFailedItem ==
  (Idle /\ \E k \in Indices : Status(k) \in {"failed", "rejected"}) =>
    RetryEnabled

\* The simulation of the running call answered with an estimatedGas the
\* call needs that is missing, not a number or not positive.
InvalidEstimateRead == \E k \in DOMAIN simulationRes : simulationRes[k] = 0

\* C18: on both paths, when a required estimatedGas is invalid or the
\* simulation call fails, the attempt submits nothing to the signer and
\* nothing to the Safe backend.
C18_InvalidEstimateAborts ==
  (InvalidEstimateRead \/ (pc = "threw" /\ thrown \in EstimateGasErrors)) =>
    /\ sent = <<>>
    /\ safeSendCalls = <<>>

\* C19: a throwing after or afterSafe hook dispatches a failure result, and
\* whenever a failure result has been dispatched no item is failed or
\* rejected, failedTxIndex is -1 and no "Try again" button is rendered.
C19_AfterHookFailure ==
  /\ [][(AfterThrows \/ AfterSafeThrows) => "failure" \in results']_vars
  /\ []("failure" \in results =>
          /\ \A k \in Indices : Status(k) \notin {"failed", "rejected"}
          /\ failedTxIndex = -1
          /\ \A k \in Indices : ~RetryShown(k))

C19_Witness ==
  /\ "failure" \in results
  /\ pc = "done"
  /\ ~safeAppMode
  /\ hookCalls[Len(hookCalls)] = "after"
  /\ Status(LastIndex(transactionsTimeline)) = "finalizing"
  /\ retries > 0

C19_WitnessSafe ==
  /\ "failure" \in results
  /\ safeAppMode
  /\ hookCalls[Len(hookCalls)] = "afterSafe"

\* C20: after a failed simulation the flow offers a retry or has the
\* completion flag set.
C20_RetryAfterSimulationFailure ==
  (pc = "threw" /\ thrown \in EstimateGasErrors) =>
    (RetryEnabled \/ isExecutionCompleted)

\* The hook named h was invoked by the running (or last) call.
Invoked(h) == \E n \in 1..Len(hookCalls) : hookCalls[n] = h

FailureRecorded ==
  \E k \in Indices : Status(k) \in {"failed", "rejected", "retrying"}

\* C21: when the dispatch of an EOA attempt ends with no item failed,
\* rejected or retrying, every item is confirmed; after and afterSafe are
\* invoked only in a call with no such item; and a call that recorded a
\* failure returns with neither hook invoked and the completion flag unset.
C21_AfterOnlyWhenAllConfirmed ==
  /\ (~safeAppMode /\ pc = "eoaReturned" /\ ~FailureRecorded) =>
       \A k \in Indices : Status(k) = "confirmed"
  /\ (Invoked("after") \/ Invoked("afterSafe")) => ~FailureRecorded
  /\ (pc \in {"eoaReturned", "safeReturned", "incomplete"} /\ FailureRecorded) =>
       /\ ~Invoked("after")
       /\ ~Invoked("afterSafe")
       /\ ~isExecutionCompleted

C21_Witness ==
  /\ pc = "after"
  /\ retries > 0
  /\ 1 \in DOMAIN timelineAtEntry
  /\ timelineAtEntry[1].status = "failed"
  /\ \A k \in Indices : k # LastIndex(transactionsTimeline) => Status(k) = "confirmed"

C21_WitnessIncomplete ==
  /\ pc = "incomplete"
  /\ 1 \in Indices
  /\ Status(1) = "rejected"
  /\ ~isExecutionCompleted

\* C22: in a call with a Safe session the signer is never asked to send a
\* transaction and after is never invoked; in a call without one, nothing
\* is sent to the Safe backend, no item is submittedToSafe and afterSafe is
\* never invoked.
C22_PathsMutuallyExclusive ==
  IF safeAppMode
    THEN /\ sent = <<>>
         /\ inFlight = {}
         /\ contractReceipts = <<>>
         /\ ~Invoked("after")
    ELSE /\ safeSendCalls = <<>>
         /\ safeSendTransactionResponse = "undefined"
         /\ \A k \in Indices : Status(k) # "submittedToSafe"
         /\ ~Invoked("afterSafe")

C22_Witness ==
  /\ safeAppMode
  /\ pc = "done"
  /\ Status(0) = "submittedToSafe"
  /\ Invoked("afterSafe")
  /\ Len(safeSendCalls) = 1

C22_WitnessEoa ==
  /\ ~safeAppMode
  /\ pc = "done"
  /\ Invoked("after")
  /\ Len(sent) >= 2

\* The pairs <<old status, new status>> of the items whose status a step
\* changes.
StatusChanges ==
  {<<transactionsTimeline[k].status, transactionsTimeline'[k].status>> :
     k \in {j \in DOMAIN transactionsTimeline \cap DOMAIN transactionsTimeline' :
              transactionsTimeline[j].status # transactionsTimeline'[j].status}}

\* The transitions the specification lists.
ListedTransitions ==
  {<<"awaitingSignature", "pending">>, <<"pending", "confirmed">>,
   <<"awaitingSignature", "rejected">>, <<"awaitingSignature", "failed">>,
   <<"awaitingPrevious", "retrying">>, <<"retrying", "pending">>,
   <<"retrying", "rejected">>, <<"retrying", "failed">>,
   <<"awaitingSignature", "submittedToSafe">>,
   <<"confirmed", "finalizing">>, <<"finalizing", "confirmed">>}

\* C23 as stated: every status change is one of the listed transitions.
C23_OnlyListedTransitions == [][StatusChanges \subseteq ListedTransitions]_vars

EoaTransitions ==
  {<<"awaitingPrevious", "awaitingSignature">>,
   <<"awaitingSignature", "pending">>, <<"awaitingSignature", "rejected">>,
   <<"awaitingSignature", "failed">>,
   <<"pending", "confirmed">>, <<"pending", "rejected">>, <<"pending", "failed">>,
   <<"failed", "retrying">>, <<"rejected", "retrying">>,
   <<"retrying", "awaitingSignature">>,
   <<"confirmed", "finalizing">>, <<"finalizing", "confirmed">>}

SafeTransitions ==
  {<<"awaitingSignature", "submittedToSafe">>,
   <<"awaitingSignature", "rejected">>, <<"awaitingSignature", "failed">>,
   <<"failed", "retrying">>,
   <<"retrying", "submittedToSafe">>, <<"retrying", "rejected">>,
   <<"retrying", "failed">>,
   <<"rejected", "submittedToSafe">>, <<"rejected", "failed">>}

\* C23: every status change of a timeline item is, in EOA mode, one of
\* awaitingPrevious -> awaitingSignature, awaitingSignature -> pending |
\* rejected | failed, pending -> confirmed | rejected | failed, failed |
\* rejected -> retrying, retrying -> awaitingSignature and, on the last
\* item, confirmed -> finalizing -> confirmed; in Safe mode one of
\* awaitingSignature | retrying -> submittedToSafe | rejected | failed,
\* failed -> retrying and rejected -> submittedToSafe | failed.
C23_StatusTransitions ==
  [][StatusChanges \subseteq
       (IF safeAppMode THEN SafeTransitions ELSE EoaTransitions)]_vars

C23_Witness ==
  /\ ~safeAppMode
  /\ retries > 0
  /\ pc = "waiting"
  /\ loopIndex = 1
  /\ 1 \in DOMAIN timelineAtEntry
  /\ timelineAtEntry[1].status = "rejected"
  /\ Status(1) = "pending"

C23_WitnessSafe ==
  /\ safeAppMode
  /\ timelineAtEntry # EmptyArr
  /\ timelineAtEntry[0].status = "rejected"
  /\ Status(0) = "submittedToSafe"

StatusValues ==
  {"awaitingSignature", "awaitingPrevious", "pending", "confirmed",
   "finalizing", "failed", "rejected", "retrying", "submittedToSafe"}

\* Timelines of 1..MaxTx items with any statuses.
AnyTimelines ==
  UNION {[0..(n - 1) -> [title : {"t"}, message : {"m"}, status : StatusValues]] :
           n \in 1..MaxTx}

\* What recalculateTimelineStatuses(idx) makes of the timeline old.
ResetContract(old, new, idx) ==
  /\ DOMAIN new = DOMAIN old
  /\ \A k \in DOMAIN old :
       IF old[k].status = "confirmed"
         THEN new[k] = old[k]
         ELSE IF k = idx
           THEN new[k].status = "retrying"
           ELSE new[k].status = "awaitingPrevious"

\* The function on every timeline of the bounded set and every index.
ResetContractOnAnyInput ==
  \A tl \in AnyTimelines : \A idx \in -1..MaxTx :
    LET r == recalculateTimelineStatuses(tl, idx)
    IN /\ r.error = NoError
       /\ r.isErrorDetailsVisible = FALSE
       /\ r.failedTxIndex = -1
       /\ ResetContract(tl, r.transactionsTimeline, idx)

\* C24: recalculateTimelineStatuses(retryIndex) clears the stored error,
\* the error-visibility flag and failedTxIndex, leaves confirmed items
\* unchanged, makes the unconfirmed item at retryIndex retrying and every
\* other unconfirmed item awaitingPrevious; a call of executeTransactions
\* applies it exactly when failedTxIndex is not -1 at entry.
C24_ResetOnEntry ==
  [][(Mount \/ RetryFailedTransaction) =>
       /\ ResetContractOnAnyInput
       /\ IF failedTxIndex # -1
            THEN /\ error' = NoError
                 /\ isErrorDetailsVisible' = FALSE
                 /\ failedTxIndex' = -1
                 /\ ResetContract(transactionsTimeline, transactionsTimeline',
                                  failedTxIndex)
            ELSE /\ transactionsTimeline' = transactionsTimeline
                 /\ error' = error
                 /\ isErrorDetailsVisible' = isErrorDetailsVisible
                 /\ failedTxIndex' = failedTxIndex]_vars

C24_Witness ==
  /\ pc = "before"
  /\ retries > 0
  /\ ArrLen(timelineAtEntry) = 3
  /\ timelineAtEntry[1].status = "failed"
  /\ timelineAtEntry[1].message = "Transaction failed"
  /\ Status(0) = "confirmed"
  /\ Status(1) = "retrying"
  /\ Status(2) = "awaitingPrevious"
  /\ error = NoError

\* The timeline tl has one item per wrapper, in wrapper order, item 0
\* awaitingSignature and the others awaitingPrevious.
FreshTimeline(tl) ==
  /\ Titles(tl) = Titles(transactionWrappers)
  /\ \A k \in DOMAIN tl :
       tl[k].status = IF k = 0 THEN "awaitingSignature" ELSE "awaitingPrevious"

\* C25: the step that initializes the timeline builds one item per wrapper
\* in wrapper order, item 0 awaitingSignature and the others
\* awaitingPrevious; it belongs to the first attempt, and once the timeline
\* is initialized no later call rebuilds it: the step after the
\* transactions hook of a retry leaves every item but the one the loop
\* starts at as it was.
C25_TimelineInitializedOnce ==
  [][/\ (transactionsTimeline = EmptyArr /\ transactionsTimeline' # EmptyArr) =>
          /\ retries = 0
          /\ FreshTimeline(transactionsTimeline')
     /\ (transactionsTimeline # EmptyArr /\ TransactionsReturns) =>
          /\ retries > 0
          /\ DOMAIN transactionsTimeline' = DOMAIN transactionsTimeline
          /\ \A k \in DOMAIN transactionsTimeline :
               k # retryIndex => transactionsTimeline'[k] = transactionsTimeline[k]]_vars

C25_Witness ==
  /\ retries > 0
  /\ pc = "eoaSimulate"
  /\ ArrLen(transactionsTimeline) >= 2
  /\ Status(0) = "confirmed"
  /\ Status(1) = "retrying"
  /\ ~FreshTimeline(transactionsTimeline)

C25_WitnessFirstAttempt ==
  /\ retries = 0
  /\ pc = "safeSimulate"
  /\ transactionsTimeline =
       initTransactionsTimelineItems(transactionWrappers, safeAppMode)

\* How often the running call invoked the hook named h.
Invocations(h) == Cardinality({n \in 1..Len(hookCalls) : hookCalls[n] = h})

\* The transactions hook was invoked once, after before, with the result
\* before gave in this call; no earlier call was given that result.
TransactionsHookFresh ==
  Invoked("transactions") =>
    /\ Invocations("transactions") = 1
    /\ SubSeq(hookCalls, 1, 2) = <<"before", "transactions">>
    /\ beforeResult = retries + 1
    /\ transactionsInputs # <<>>
    /\ transactionsInputs[Len(transactionsInputs)] = beforeResult
    /\ \A n \in 1..(Len(transactionsInputs) - 1) :
         transactionsInputs[n] # beforeResult

\* Both hooks came before every simulation request and every submission.
HooksBeforeSubmission ==
  (simulateRequests > 0 \/ sent # <<>> \/ safeSendCalls # <<>>) =>
    /\ Len(hookCalls) >= 2
    /\ SubSeq(hookCalls, 1, 2) = <<"before", "transactions">>

\* C26 as stated: every call of executeTransactions invokes before exactly
\* once, then transactions exactly once with its result, before any
\* simulation request or submission.
C26_HooksOnEveryCall ==
  /\ pc # "mount" =>
       /\ Invocations("before") = 1
       /\ hookCalls[1] = "before"
  /\ TransactionsHookFresh
  /\ HooksBeforeSubmission

\* C26: every call of executeTransactions that finds a connected address
\* invokes before exactly once, and a call without one invokes no hook;
\* when before has resolved, transactions is invoked exactly once with the
\* result of that invocation, never with the result of an earlier call;
\* both come before any simulation request or submission of the call.
C26_HooksFreshOnEveryCall ==
  /\ pc # "mount" =>
       IF pc = "threw" /\ thrown = "Assertion failed"
         THEN hookCalls = <<>>
         ELSE /\ Invocations("before") = 1
              /\ hookCalls[1] = "before"
  /\ TransactionsHookFresh
  /\ HooksBeforeSubmission

C26_Witness ==
  /\ retries = 2
  /\ pc = "signing"
  /\ transactionsInputs = <<1, 2, 3>>
  /\ beforeResult = 3
  /\ hookCalls = <<"before", "transactions">>
  /\ Len(sent) = 1

\* The wrapper whose submission gave the receipt with transaction hash h.
ReceiptIndex(h) == (h - 1) % (MaxTx + 1)

\* C27: whenever after is invoked in EOA mode, contractReceipts holds one
\* receipt for every wrapper of the batch, in wrapper order.
C27_AfterGetsEveryReceipt ==
  (~safeAppMode /\ Invoked("after")) =>
    /\ Len(contractReceipts) = ArrLen(transactionWrappers)
    /\ \A n \in 1..Len(contractReceipts) :
         ReceiptIndex(contractReceipts[n]) = n - 1

\* C28: the parent never receives both a failure result and a success
\* result: once a failure result has been dispatched, the Continue button,
\* which dispatches the success result, is not enabled.
C28_NeverBothResults ==
  /\ ~({"failure", "success"} \subseteq results)
  /\ "failure" \in results => ~isExecutionCompleted

====
